---- MODULE Spec2Model ----
(***************************************************************************)
(* Model of src/api_tester.py: APITester (make_request, print_stats, run)  *)
(* and main.                                                               *)
(*                                                                         *)
(* One asyncio task runs the loop, so the code between two awaits is one   *)
(* atomic step.  The suspension points are the await of session.get        *)
(* (line 33), the await of response.json()/response.text() (lines 40, 43)  *)
(* and the await of asyncio.sleep (line 112).  Ctrl+C is delivered by      *)
(* asyncio.run as a cancellation of the task at its suspension point;      *)
(* CancelledError is a BaseException, so the handler of line 51 does not   *)
(* catch it.                                                               *)
(*                                                                         *)
(* time.time() is the variable now: a reading that never decreases and may *)
(* or may not have advanced when a suspension ends.                        *)
(*                                                                         *)
(* HTTP status codes are written as their decimal text ("200"), so that    *)
(* the status field of a result can also hold the marker "ERROR".          *)
(***************************************************************************)
EXTENDS Integers, Sequences, FiniteSets, TLC

\* ------------------------------------------------------------- bounds
\* Largest number of requests the model issues in a run that no cap ends
\* (max_requests is None or 0); a run with a cap is bounded by its cap.
MaxRequests == 4
\* Largest reading of the clock.
MaxClock == 1

\* ---------------------------------------------------------- constants
\* line 109: statistics are printed every 10 requests
StatsEvery == 10

\* Optional values: None is the empty sequence, a present value v is <<v>>.
None == <<>>

\* Values of -n / --num-requests (line 120): absent, or an integer.
Caps == {None, <<-1>>, <<0>>, <<1>>, <<2>>, <<10>>}
\* Values of -i / --interval (line 118), in clock units.
Intervals == {0, 1}
\* Status codes the server may answer with.
Statuses == {"200", "500"}
\* What reading the body of a response does: "json" is a body that is valid
\* JSON, "garbage" is a body that is text but not JSON, "broken" is a body
\* whose read fails at the transport.
Bodies == {"json", "garbage", "broken"}

VARIABLES
    interval,        \* self.interval
    max_requests,    \* self.max_requests
    request_count,   \* self.request_count
    success_count,   \* self.success_count
    error_count,     \* self.error_count
    response_times,  \* self.response_times
    start_time,      \* self.start_time
    now,             \* the reading of time.time()
    pc,              \* where the program is
    mr_start_time,   \* make_request: local start_time
    status,          \* make_request: local status
    body,            \* the body of the response being read
    result,          \* run: local result, from line 100 until the sleep ends
    blocks,          \* the statistics blocks written to standard output
    session,         \* the aiohttp.ClientSession: "none", "open", "closed"
    exit_reason,     \* how run() ended: "cap", "interrupt", "crash"
    exit_code        \* the exit code of the process

vars == <<interval, max_requests, request_count, success_count, error_count,
          response_times, start_time, now, pc, mr_start_time, status, body,
          result, blocks, session, exit_reason, exit_code>>

\* ------------------------------------------------------------ helpers
RECURSIVE Sum(_)
Sum(s) == IF s = <<>> THEN 0 ELSE s[1] + Sum(Tail(s))

Max(s) == CHOOSE x \in {s[i] : i \in 1..Len(s)} :
              \A y \in {s[i] : i \in 1..Len(s)} : y <= x

Min(s) == CHOOSE x \in {s[i] : i \in 1..Len(s)} :
              \A y \in {s[i] : i \in 1..Len(s)} : x <= y

\* The readings the clock can show once a suspension that began at t ends.
Later(t) == IF t < MaxClock THEN {t, t + 1} ELSE {t}

\* The readings the clock can show when asyncio.sleep(d) returns.
AfterSleep(t, d) == IF d = 0 \/ t >= MaxClock THEN Later(t) ELSE {t + 1}

\* The cap taken as set only when it is positive.
Truthy_Positive(m) == m # None /\ m[1] > 0

\* Python truthiness of self.max_requests (lines 88, 96): None and 0 are false.
Truthy(m) == m # None /\ m[1] # 0

\* line 96: the loop's exit test
CapReached(m, count) == Truthy(m) /\ count >= m[1]

\* The states in which the run loop is running.
RUNNING == pc \in {"loop_head", "await_response", "await_body", "sleep"}
STOPPED == pc \in {"finally", "stopped"}

Init ==
    /\ interval \in Intervals
    /\ max_requests \in Caps
    /\ request_count = 0
    /\ success_count = 0
    /\ error_count = 0
    /\ response_times = <<>>
    /\ start_time = None
    /\ now = 0
    /\ pc = "not_started"
    /\ mr_start_time = None
    /\ status = None
    /\ body = None
    /\ result = None
    /\ blocks = <<>>
    /\ session = "none"
    /\ exit_reason = None
    /\ exit_code = None

\* print_stats without the guard of lines 64-65: with no sample the mean of
\* line 67 divides by zero.
print_stats_NoGuard(times, count, succ, err, t, where) ==
    IF times = <<>> \/ t - start_time[1] = 0
    THEN [raised |-> TRUE, out |-> blocks]
    ELSE [raised |-> FALSE,
          out |-> Append(blocks,
                    [total |-> count, successful |-> succ, errors |-> err,
                     avg |-> <<Sum(times), Len(times)>>,
                     max |-> Max(times), min |-> Min(times),
                     elapsed |-> t - start_time[1], at |-> where])]

\* print_stats with the samples, not the requests issued, as its total.
print_stats_SampleTotal(times, count, succ, err, t, where) ==
    IF times = <<>>
    THEN [raised |-> FALSE, out |-> blocks]
    ELSE IF t - start_time[1] = 0
    THEN [raised |-> TRUE, out |-> blocks]
    ELSE [raised |-> FALSE,
          out |-> Append(blocks,
                    [total |-> Len(times), successful |-> succ, errors |-> err,
                     avg |-> <<Sum(times), Len(times)>>,
                     max |-> Max(times), min |-> Min(times),
                     elapsed |-> t - start_time[1], at |-> where])]

\* print_stats (lines 62-82) on the counters given, at clock reading t.
\* raised: the division of line 72 raised ZeroDivisionError.
\* out: standard output's statistics blocks afterwards.
print_stats(times, count, succ, err, t, where) ==
    IF times = <<>>
    THEN [raised |-> FALSE, out |-> blocks]
    ELSE IF t - start_time[1] = 0
    THEN [raised |-> TRUE, out |-> blocks]
    ELSE [raised |-> FALSE,
          out |-> Append(blocks,
                    [total |-> count, successful |-> succ, errors |-> err,
                     avg |-> <<Sum(times), Len(times)>>,
                     max |-> Max(times), min |-> Min(times),
                     elapsed |-> t - start_time[1], at |-> where])]

\* run, lines 86-94: banner, start timestamp, the session is opened.
Start ==
    /\ pc = "not_started"
    /\ start_time' = <<now>>
    /\ session' = "open"
    /\ pc' = "loop_head"
    /\ UNCHANGED <<interval, max_requests, request_count, success_count,
                   error_count, response_times, now, mr_start_time, status,
                   body, result, blocks, exit_reason, exit_code>>

\* run, lines 96-100 and make_request, lines 31-33: the loop test fails to
\* break, the counter is incremented and the GET is sent.
IssueRequest ==
    /\ pc = "loop_head"
    /\ ~CapReached(max_requests, request_count)
    /\ Truthy(max_requests) \/ request_count < MaxRequests
    /\ request_count' = request_count + 1
    /\ mr_start_time' = <<now>>
    /\ pc' = "await_response"
    /\ UNCHANGED <<interval, max_requests, success_count, error_count,
                   response_times, start_time, now, status, body, result,
                   blocks, session, exit_reason, exit_code>>

\* The break without the release of the session.
LoopBreak_NoRelease ==
    /\ pc = "loop_head"
    /\ CapReached(max_requests, request_count)
    /\ exit_reason' = <<"cap">>
    /\ pc' = "finally"
    /\ UNCHANGED <<interval, max_requests, request_count, success_count,
                   error_count, response_times, start_time, now,
                   mr_start_time, status, body, result, blocks, session,
                   exit_code>>

\* run, lines 96-97: break; the session is released and run() returns.
LoopBreak ==
    /\ pc = "loop_head"
    /\ CapReached(max_requests, request_count)
    /\ session' = "closed"
    /\ exit_reason' = <<"cap">>
    /\ pc' = "finally"
    /\ UNCHANGED <<interval, max_requests, request_count, success_count,
                   error_count, response_times, start_time, now,
                   mr_start_time, status, body, result, blocks, exit_code>>

\* The loop's tail with statistics per interval: the samples are cleared once
\* the periodic block is printed.
LoopTail_ResetAfterStats(times, succ, err, res, t) ==
    LET ps == IF request_count % StatsEvery = 0
              THEN print_stats(times, request_count, succ, err, t, "loop")
              ELSE [raised |-> FALSE, out |-> blocks]
    IN  /\ response_times' = IF request_count % StatsEvery = 0 /\ ~ps.raised
                             THEN <<>> ELSE times
        /\ success_count' = succ
        /\ error_count' = err
        /\ result' = <<res>>
        /\ now' = t
        /\ blocks' = ps.out
        /\ mr_start_time' = None
        /\ status' = None
        /\ body' = None
        /\ IF ps.raised
           THEN /\ pc' = "finally"
                /\ session' = "closed"
                /\ exit_reason' = <<"crash">>
           ELSE /\ pc' = "sleep"
                /\ UNCHANGED <<session, exit_reason>>
        /\ UNCHANGED <<interval, max_requests, request_count, start_time,
                       exit_code>>

\* run, lines 102-112 after make_request returned res with the counters
\* given: the request line, the periodic statistics, then the sleep.  A
\* ZeroDivisionError of print_stats leaves run() through the async with.
LoopTail(times, succ, err, res, t) ==
    LET ps == IF request_count % StatsEvery = 0
              THEN print_stats(times, request_count, succ, err, t, "loop")
              ELSE [raised |-> FALSE, out |-> blocks]
    IN  /\ response_times' = times
        /\ success_count' = succ
        /\ error_count' = err
        /\ result' = <<res>>
        /\ now' = t
        /\ blocks' = ps.out
        /\ mr_start_time' = None
        /\ status' = None
        /\ body' = None
        /\ IF ps.raised
           THEN /\ pc' = "finally"
                /\ session' = "closed"
                /\ exit_reason' = <<"crash">>
           ELSE /\ pc' = "sleep"
                /\ UNCHANGED <<session, exit_reason>>
        /\ UNCHANGED <<interval, max_requests, request_count, start_time,
                       exit_code>>

\* The handler without the append of line 54.
ExceptHandler_NoSample(t) ==
    LoopTail(response_times, success_count, error_count + 1,
             [status |-> "ERROR", elapsed |-> t - mr_start_time[1],
              payload |-> "error"],
             t)

\* The handler without the increment of line 52.
ExceptHandler_NoCount(t) ==
    LoopTail(Append(response_times, t - mr_start_time[1]),
             success_count, error_count,
             [status |-> "ERROR", elapsed |-> t - mr_start_time[1],
              payload |-> "error"],
             t)

\* make_request, lines 51-60: the handler of `except Exception`.
ExceptHandler(t) ==
    LoopTail(Append(response_times, t - mr_start_time[1]),
             success_count, error_count + 1,
             [status |-> "ERROR", elapsed |-> t - mr_start_time[1],
              payload |-> "error"],
             t)

\* make_request, lines 33-40/43: the response arrives with status st; the
\* sample is appended, the status is counted, the body is awaited.
ResponseArrives ==
    /\ pc = "await_response"
    /\ \E t \in Later(now), st \in Statuses, b \in Bodies :
        /\ now' = t
        /\ response_times' = Append(response_times, t - mr_start_time[1])
        /\ status' = <<st>>
        /\ body' = <<b>>
        /\ IF st = "200"
           THEN success_count' = success_count + 1 /\ UNCHANGED error_count
           ELSE error_count' = error_count + 1 /\ UNCHANGED success_count
    /\ pc' = "await_body"
    /\ UNCHANGED <<interval, max_requests, request_count, start_time,
                   mr_start_time, result, blocks, session, exit_reason,
                   exit_code>>

\* make_request, line 33 raising (connection refused, timeout, DNS failure).
TransportFailure ==
    /\ pc = "await_response"
    /\ \E t \in Later(now) : ExceptHandler(t)

\* The body parsed as JSON whatever the status.
BodyRaises_JsonAlways(st, b) == b # "json"

\* Whether awaiting the body raises: response.json() (line 40) raises on a
\* body that is not JSON and on a failed read, response.text() (line 43) on
\* a failed read only.
BodyRaises(st, b) == IF st = "200" THEN b # "json" ELSE b = "broken"

\* make_request, lines 40/43-50 and 51-60: the body is read, or reading it
\* raises into the handler.
BodyRead ==
    /\ pc = "await_body"
    /\ \E t \in Later(now) :
        IF BodyRaises(status[1], body[1])
        THEN ExceptHandler(t)
        ELSE LoopTail(response_times, success_count, error_count,
                      [status |-> status[1],
                       elapsed |-> response_times[Len(response_times)],
                       payload |-> IF status[1] = "200" THEN "json" ELSE "text"],
                      t)

\* run, line 112: asyncio.sleep(self.interval) returns.  result is not read
\* again before line 100 assigns it anew.
SleepReturns ==
    /\ pc = "sleep"
    /\ \E t \in AfterSleep(now, interval) : now' = t
    /\ pc' = "loop_head"
    /\ result' = None
    /\ UNCHANGED <<interval, max_requests, request_count, success_count,
                   error_count, response_times, start_time, mr_start_time,
                   status, body, blocks, session, exit_reason, exit_code>>

\* Ctrl+C that lets the request in flight fail first: the handler's sample
\* is appended before the run stops.
Interrupt_AfterSample ==
    /\ pc \in {"await_response", "await_body", "sleep"}
    /\ session' = "closed"
    /\ exit_reason' = <<"interrupt">>
    /\ pc' = "finally"
    /\ mr_start_time' = None
    /\ status' = None
    /\ body' = None
    /\ result' = None
    /\ response_times' = IF pc = "await_response"
                         THEN Append(response_times, now - mr_start_time[1])
                         ELSE response_times
    /\ UNCHANGED <<interval, max_requests, request_count, success_count,
                   error_count, start_time, now, blocks, exit_code>>

\* Ctrl+C caught by the handler of line 51 and counted as an error.
Interrupt_CountsError ==
    /\ pc \in {"await_response", "await_body", "sleep"}
    /\ session' = "closed"
    /\ exit_reason' = <<"interrupt">>
    /\ pc' = "finally"
    /\ mr_start_time' = None
    /\ status' = None
    /\ body' = None
    /\ result' = None
    /\ error_count' = IF pc = "sleep" THEN error_count ELSE error_count + 1
    /\ UNCHANGED <<interval, max_requests, request_count, success_count,
                   response_times, start_time, now, blocks, exit_code>>

\* Ctrl+C: the task is cancelled at its suspension point, the async with of
\* line 94 releases the session, asyncio.run raises KeyboardInterrupt and
\* main prints the notice (lines 129-130).  The locals of the cancelled
\* coroutines are gone.
Interrupt ==
    /\ pc \in {"await_response", "await_body", "sleep"}
    /\ session' = "closed"
    /\ exit_reason' = <<"interrupt">>
    /\ pc' = "finally"
    /\ mr_start_time' = None
    /\ status' = None
    /\ body' = None
    /\ result' = None
    /\ UNCHANGED <<interval, max_requests, request_count, success_count,
                   error_count, response_times, start_time, now, blocks,
                   exit_code>>

\* main, lines 131-132: the final print_stats; the process ends.
FinalStats ==
    /\ pc = "finally"
    /\ \E t \in Later(now) :
        LET ps == print_stats(response_times, request_count, success_count,
                              error_count, t, "final")
        IN  /\ now' = t
            /\ blocks' = ps.out
            /\ exit_code' = IF ps.raised \/ exit_reason = <<"crash">>
                            THEN <<1>> ELSE <<0>>
    /\ pc' = "stopped"
    /\ UNCHANGED <<interval, max_requests, request_count, success_count,
                   error_count, response_times, start_time, mr_start_time,
                   status, body, result, session, exit_reason>>

Next ==
    \/ Start
    \/ IssueRequest
    \/ LoopBreak
    \/ ResponseArrives
    \/ TransportFailure
    \/ BodyRead
    \/ SleepReturns
    \/ Interrupt
    \/ FinalStats

Spec == Init /\ [][Next]_vars

\* Every request and every sleep eventually returns, and the steps the
\* program takes by itself are taken; Ctrl+C is never owed.
Progress ==
    \/ Start
    \/ IssueRequest
    \/ LoopBreak
    \/ ResponseArrives
    \/ TransportFailure
    \/ BodyRead
    \/ SleepReturns
    \/ FinalStats

FairSpec == Spec /\ WF_vars(Progress)

TypeOK ==
    /\ request_count \in 0..(MaxRequests + StatsEvery)
    /\ Len(response_times) <= 2 * request_count

\* ------------------------------------------------------------- claims
Tally == success_count + error_count
Samples == Len(response_times)

\* The blocks written by the final print_stats of main.
FinalBlocks == Cardinality({i \in 1..Len(blocks) : blocks[i].at = "final"})

\* A step in which make_request returned (lines 45-50 or 55-60).
Resolved == result = None /\ result' # None

\* C1: after N completed iterations of the loop, whatever the outcomes of
\* the requests were, success_count + error_count = N and
\* len(response_times) = N.
C1_CountsAfterIterations ==
    pc \in {"sleep", "loop_head"} =>
        /\ Tally = request_count
        /\ Samples = request_count

C3_OneSamplePerCall ==
    [][/\ (pc = "await_response" /\ pc' # "await_response" /\ exit_reason' # <<"interrupt">>)
            => Len(response_times') = Len(response_times) + 1
       /\ (pc = "await_body") => Len(response_times') = Len(response_times)]_vars

\* C4: with a cap of 0 no request is issued, request_count stays 0 and the
\* final statistics call prints nothing.
C4_CapZero ==
    max_requests = <<0>> =>
        /\ request_count = 0
        /\ pc \notin {"await_response", "await_body", "sleep"}
        /\ blocks = <<>>

\* C5: with a cap set, request_count never exceeds the cap, and a run that
\* ended without an interruption has issued exactly cap requests.
C5_CapRespected ==
    (max_requests # None /\ max_requests[1] >= 0) =>
        /\ request_count <= max_requests[1]
        /\ (pc = "stopped" /\ exit_reason # <<"interrupt">>)
              => request_count = max_requests[1]

\* C6: with a cap set (0 included) the run reaches STOPPED by itself, the
\* loop test ending it as soon as request_count has reached the cap; with no
\* cap set the run leaves RUNNING through an interruption only.
C6_LeavesRunning ==
    /\ (max_requests # None) => <>(pc = "stopped")
    /\ [][/\ (max_requests # None /\ pc = "loop_head"
               /\ request_count >= max_requests[1]) => pc' = "finally"
          /\ (max_requests = None /\ RUNNING /\ ~RUNNING')
               => exit_reason' = <<"interrupt">>]_vars

C8_BlockCount ==
    (/\ pc = "stopped"
     /\ exit_reason # <<"interrupt">>
     /\ max_requests # None
     /\ max_requests[1] > 0) =>
        /\ Len(blocks) = (max_requests[1] \div StatsEvery) + 1
        /\ \A i \in 1..(Len(blocks) - 1) :
              blocks[i].at = "loop" /\ blocks[i].total = StatsEvery * i
        /\ blocks[Len(blocks)].at = "final"

\* C9: a response with status 200 whose body is not JSON is no request
\* error: reading the body counts no error, leaves the one success counted
\* and the result keeps status 200.
C9_ParseFailureIsSuccess ==
    [][(pc = "await_body" /\ status = <<"200">> /\ body = <<"garbage">>
          /\ Resolved)
        => /\ error_count' = error_count
           /\ success_count' = success_count
           /\ result'[1].status = "200"]_vars

\* C10: no failed request ends the run: after a request that resolved with a
\* status other than 200 or with the error marker the loop sleeps; the run
\* leaves RUNNING before the cap is reached through an interruption only.
C10_FailuresDoNotStop ==
    [][/\ (Resolved /\ result'[1].status # "200") => pc' = "sleep"
       /\ (RUNNING /\ ~RUNNING'
             /\ ~(max_requests # None /\ request_count >= max_requests[1]))
            => exit_reason' = <<"interrupt">>]_vars

\* A step in which Ctrl+C ends the run.
Interrupted == exit_reason = None /\ exit_reason' = <<"interrupt">>

\* C11: emitting statistics never fails with a division by zero: with a
\* sample recorded and the clock still reading start_time, print_stats
\* completes.
C11_NoZeroDivision ==
    /\ exit_reason # <<"crash">>
    /\ exit_code # <<1>>

C13_InterruptNotCounted ==
    [][Interrupted =>
          /\ success_count' = success_count
          /\ error_count' = error_count
          /\ response_times' = response_times]_vars

\* Ctrl+C arrived after the response of the current request was counted (while
\* its body was awaited or during the pacing sleep).
C13_Witness ==
    /\ exit_reason = <<"interrupt">>
    /\ Samples = request_count
    /\ Tally = request_count
    /\ request_count >= 1

C15_EmissionKeepsState ==
    [][(Len(blocks') = Len(blocks) + 1) =>
          LET b == blocks'[Len(blocks')]
          IN  /\ request_count' = request_count
              /\ start_time' = start_time
              /\ success_count' >= success_count
              /\ error_count' >= error_count
              /\ Len(response_times') >= Len(response_times)
              /\ SubSeq(response_times', 1, Len(response_times)) = response_times
              /\ SubSeq(blocks', 1, Len(blocks)) = blocks
              /\ b.total = request_count'
              /\ b.successful = success_count'
              /\ b.errors = error_count'
              /\ b.avg = <<Sum(response_times'), Len(response_times')>>
              /\ pc = "finally" =>
                    /\ success_count' = success_count
                    /\ error_count' = error_count
                    /\ response_times' = response_times]_vars

\* A periodic block and the final block were both written.
C15_Witness ==
    /\ Len(blocks) = 2
    /\ blocks[1].at = "loop"
    /\ blocks[2].at = "final"

\* C16: the session is opened once, with start_time recorded and before any
\* request, it is open exactly while the loop runs, and it is closed in
\* every state after the run ended, however it ended.
C16_SessionScoped ==
    /\ [](/\ session = "none" <=> pc = "not_started"
          /\ session = "open" <=> RUNNING
          /\ session = "closed" <=> STOPPED
          /\ session # "none" => start_time # None
          /\ request_count > 0 => session # "none")
    /\ [][session' # session =>
            \/ /\ session = "none"
               /\ session' = "open"
               /\ request_count = 0
               /\ start_time' # None
            \/ /\ session = "open"
               /\ session' = "closed"]_vars

\* The run ended at its cap after requests were made, the session closed.
C16_Witness ==
    /\ pc = "stopped"
    /\ exit_reason = <<"cap">>
    /\ request_count >= 1
    /\ session = "closed"

\* C17: in every state, the suspension points and the end of the run
\* included, len(response_times) = success_count + error_count, also when
\* the body read fails after the status was counted.
C17_SamplesMatchTally == Samples = Tally

\* A body read failed after its status was counted: the request has two
\* samples and two counts.
C17_Witness ==
    /\ pc = "sleep"
    /\ request_count = 1
    /\ result[1].status = "ERROR"
    /\ Samples = 2
    /\ Tally = 2

\* C18: a run interrupted before any sample was recorded was interrupted
\* during its first request; its final print_stats is a no-op that writes no
\* block, although request_count is 1.
C18_NoBlockBeforeFirstSample ==
    (pc = "stopped" /\ exit_reason = <<"interrupt">> /\ response_times = <<>>) =>
        /\ request_count = 1
        /\ blocks = <<>>
        /\ exit_code = <<0>>

\* The run was interrupted during its first request and has ended.
C18_Witness ==
    /\ pc = "stopped"
    /\ exit_reason = <<"interrupt">>
    /\ response_times = <<>>
    /\ request_count = 1

\* C19: with a negative cap the loop body never runs: no request is issued,
\* request_count stays 0, and the run stops at the first loop test.
C19_NegativeCap ==
    (max_requests # None /\ max_requests[1] < 0) =>
        /\ request_count = 0
        /\ pc \in {"not_started", "loop_head", "finally", "stopped"}
        /\ pc \in {"finally", "stopped"} => exit_reason = <<"cap">>
        /\ blocks = <<>>

\* A run with cap -1 has ended.
C19_Witness ==
    /\ max_requests = <<-1>>
    /\ pc = "stopped"
    /\ request_count = 0
====
